---- MODULE Spec2Model ----
(***************************************************************************)
(* Model of packages/component/src/lib/colors.ts: the fixed palette        *)
(* selector defaultCategoryColors, the spatial palette generator           *)
(* spatialCategoryColors and the parser parseColorNormalizedRgb.           *)
(*                                                                         *)
(* Numbers are exact rationals [num, den] (den > 0), with the IEEE values  *)
(* NaN = [0,0], +Infinity = [1,0], -Infinity = [-1,0] that a division by   *)
(* zero produces.  Math.sqrt is rounded down to 1/SqrtScale.               *)
(***************************************************************************)
EXTENDS Integers, Sequences, FiniteSets, TLC

VARIABLES
    category10,   \* module-level table category10 (a mutable JS array)
    category20,   \* module-level table category20 (a mutable JS array)
    count,        \* argument of the last defaultCategoryColors call
    returned,     \* value of the array at the moment the last call returned
    held,         \* the returned array as the caller holds it now
    object,       \* which array object the caller holds: "fresh" or a table
    mutations,    \* number of in-place writes callers have made so far
    first,        \* argument and result of the first defaultCategoryColors call
    spatial,      \* last spatialCategoryColors call: arguments, locals, result
    permuted,     \* the call repeated on a permutation of the same positions
    parsed        \* last parseColorNormalizedRgb call: parser output and result

vars == <<category10, category20, count, returned, held, object, mutations,
          first, spatial, permuted, parsed>>

paletteVars == <<category10, category20, count, returned, held, object,
                 mutations, first>>

----------------------------------------------------------------------------
(* Bounds *)

MaxNegative == 2
MaxCount == 25
MaxMutations == 1
MaxX == 2
MaxY == 1
MaxPositions == 3
SqrtScale == 10

----------------------------------------------------------------------------
(* Numbers *)

Abs(n) == IF n < 0 THEN -n ELSE n

Min(a, b) == IF a < b THEN a ELSE b

Max(a, b) == IF a > b THEN a ELSE b

Sign(n) == IF n < 0 THEN -1 ELSE IF n > 0 THEN 1 ELSE 0

RECURSIVE GCD(_, _)
GCD(a, b) == IF b = 0 THEN a ELSE GCD(b, a % b)

\* n / d as a JS number: reduced fraction, or NaN / +-Infinity when d = 0
Rat(n, d) ==
    IF d = 0 THEN [num |-> Sign(n), den |-> 0]
    ELSE LET g == GCD(Abs(n), Abs(d))
             s == IF d < 0 THEN -1 ELSE 1
         IN  [num |-> s * (n \div g), den |-> s * (d \div g)]

Num(n) == [num |-> n, den |-> 1]

NaN == [num |-> 0, den |-> 0]

IsNaN(a) == a.den = 0 /\ a.num = 0

IsFinite(a) == a.den > 0

RatAdd(a, b) ==
    IF IsNaN(a) \/ IsNaN(b) THEN NaN
    ELSE IF ~IsFinite(a) /\ ~IsFinite(b)
         THEN (IF a.num = b.num THEN a ELSE NaN)
    ELSE IF ~IsFinite(a) THEN a
    ELSE IF ~IsFinite(b) THEN b
    ELSE LET g == GCD(a.den, b.den)
         IN  Rat(a.num * (b.den \div g) + b.num * (a.den \div g),
                 (a.den \div g) * b.den)

RatNeg(a) == [num |-> -a.num, den |-> a.den]

RatSub(a, b) == RatAdd(a, RatNeg(b))

RatMul(a, b) ==
    IF IsNaN(a) \/ IsNaN(b) THEN NaN
    ELSE IF ~IsFinite(a) \/ ~IsFinite(b)
         THEN [num |-> Sign(a.num) * Sign(b.num), den |-> 0]
    ELSE LET g1 == GCD(Abs(a.num), b.den)
             g2 == GCD(Abs(b.num), a.den)
         IN  Rat((a.num \div g1) * (b.num \div g2),
                 (a.den \div g2) * (b.den \div g1))

\* a / b with IEEE results for a zero divisor (0/0 = NaN, x/0 = +-Infinity)
RatDiv(a, b) ==
    IF IsNaN(a) \/ IsNaN(b) THEN NaN
    ELSE IF ~IsFinite(a) /\ ~IsFinite(b) THEN NaN
    ELSE IF ~IsFinite(a) THEN [num |-> a.num * (IF b.num < 0 THEN -1 ELSE 1), den |-> 0]
    ELSE IF ~IsFinite(b) THEN Num(0)
    ELSE IF b.num = 0 THEN [num |-> Sign(a.num), den |-> 0]
    ELSE RatMul(a, Rat(b.den, b.num))

\* a < b as JS evaluates it: false whenever an operand is NaN
RatLess(a, b) ==
    IF IsNaN(a) \/ IsNaN(b) THEN FALSE
    ELSE IF ~IsFinite(a) \/ ~IsFinite(b)
         THEN (IF ~IsFinite(a) /\ ~IsFinite(b) THEN a.num < b.num
               ELSE IF ~IsFinite(a) THEN a.num < 0
               ELSE b.num > 0)
    ELSE a.num * b.den < b.num * a.den

RatLeq(a, b) == ~IsNaN(a) /\ ~IsNaN(b) /\ (a = b \/ RatLess(a, b))

\* a % m for an integer m > 0: the remainder takes the sign of the dividend
RatRem(a, m) ==
    IF ~IsFinite(a) THEN NaN
    ELSE LET q == Abs(a.num) \div (a.den * m)
         IN  Rat(Sign(a.num) * (Abs(a.num) - q * a.den * m), a.den)

----------------------------------------------------------------------------
(* Colours and arrays *)

\* a CSS colour string; args holds the numbers a template string interpolates
Hex(s) == [css |-> s, args |-> <<>>]

Hsl(hue, saturation, lightness) ==
    [css |-> "hsl", args |-> <<hue, Num(saturation), Num(lightness)>>]

Category10Table ==
    << Hex("#1f77b4"), Hex("#ff7f0e"), Hex("#2ca02c"), Hex("#d62728"),
       Hex("#9467bd"), Hex("#8c564b"), Hex("#e377c2"), Hex("#7f7f7f"),
       Hex("#bcbd22"), Hex("#17becf") >>

Category20Table ==
    << Hex("#1f77b4"), Hex("#aec7e8"), Hex("#ff7f0e"), Hex("#ffbb78"),
       Hex("#2ca02c"), Hex("#98df8a"), Hex("#d62728"), Hex("#ff9896"),
       Hex("#9467bd"), Hex("#c5b0d5"), Hex("#8c564b"), Hex("#c49c94"),
       Hex("#e377c2"), Hex("#f7b6d2"), Hex("#7f7f7f"), Hex("#c7c7c7"),
       Hex("#bcbd22"), Hex("#dbdb8d"), Hex("#17becf"), Hex("#9edae5") >>

\* Array.prototype.slice(start, end): negative indices count from the end
Slice(arr, start, end) ==
    LET len == Len(arr)
        k == IF start < 0 THEN Max(len + start, 0) ELSE Min(start, len)
        final == IF end < 0 THEN Max(len + end, 0) ELSE Min(end, len)
    IN  IF final <= k THEN <<>> ELSE SubSeq(arr, k + 1, final)

\* slice() returns a new array object, never the table itself
SliceObject(table) == "fresh"

SpreadObjectShared(table) == table

\* [...category20] copies the table into a new array object
SpreadObject(table) == "fresh"

ClampCountOff(n) == n

\* if (count < 1) count = 1
ClampCount(n) == IF n < 1 THEN 1 ELSE n

GeneratedColorParity(i, n) ==
    Hsl(RatRem(Rat(i * 360, n), 360),
        IF i % 2 = 0 THEN 85 ELSE 70,
        45 + (i % 3) * 10)

GeneratedColorLightness2(i, n) ==
    Hsl(RatRem(Rat(i * 360, n), 360),
        IF i % 2 = 0 THEN 70 ELSE 85,
        45 + (i % 2) * 10)

\* body of the extension loop for index i (0-based) of count n
GeneratedColor(i, n) ==
    Hsl(RatRem(Rat(i * 360, n), 360),
        IF i % 2 = 0 THEN 70 ELSE 85,
        45 + (i % 3) * 10)

\* the loop  for (i = category20.length; i < count; i++) colors.push(...)
RECURSIVE ExtendColors(_, _, _)
ExtendColors(colors, i, n) ==
    IF i < n THEN ExtendColors(Append(colors, GeneratedColor(i, n)), i + 1, n)
    ELSE colors

SelectTableStrict(c10, c20, n) ==
    IF n < Len(c10) THEN "category10"
    ELSE IF n <= Len(c20) THEN "category20"
    ELSE "extend"

\* the if / else-if / else on count
SelectTable(c10, c20, n) ==
    IF n <= Len(c10) THEN "category10"
    ELSE IF n <= Len(c20) THEN "category20"
    ELSE "extend"

\* defaultCategoryColors(count) against the current tables: the array it
\* returns and the identity of that array object
defaultCategoryColors(c10, c20, n0) ==
    LET n == ClampCount(n0)
        branch == SelectTable(c10, c20, n)
    IN  IF branch = "category10"
        THEN [colors |-> Slice(c10, 0, n), object |-> SliceObject("category10")]
        ELSE IF branch = "category20"
        THEN [colors |-> Slice(c20, 0, n), object |-> SliceObject("category20")]
        ELSE [colors |-> ExtendColors(c20, Len(c20), n),
              object |-> SpreadObject("category20")]

----------------------------------------------------------------------------
(* Palette operations *)

NoCall == [count |-> 0, colors |-> <<>>]

Marker == Hex("#000000")

InitPalette ==
    /\ category10 = Category10Table
    /\ category20 = Category20Table
    /\ count = 0
    /\ returned = <<>>
    /\ held = <<>>
    /\ object = "none"
    /\ mutations = 0
    /\ first = NoCall

\* a caller invokes defaultCategoryColors(n) and keeps the returned array;
\* pushes onto an array that is a table object land in the table
CallDefaultCategoryColors(n) ==
    LET r == defaultCategoryColors(category10, category20, n)
    IN  /\ count' = n
        /\ returned' = r.colors
        /\ held' = r.colors
        /\ object' = r.object
        /\ first' = IF object = "none" THEN [count |-> n, colors |-> r.colors]
                    ELSE first
        /\ category10' = IF r.object = "category10" THEN r.colors ELSE category10
        /\ category20' = IF r.object = "category20" THEN r.colors ELSE category20
        /\ UNCHANGED <<mutations, spatial, permuted, parsed>>

\* the caller overwrites element i of the array it holds, in place
MutateReturned(i) ==
    /\ object # "none"
    /\ mutations < MaxMutations
    /\ i \in 1..Len(held)
    /\ held[i] # Marker
    /\ held' = [held EXCEPT ![i] = Marker]
    /\ mutations' = mutations + 1
    /\ category10' = IF object = "category10" THEN held' ELSE category10
    /\ category20' = IF object = "category20" THEN held' ELSE category20
    /\ UNCHANGED <<count, returned, object, first, spatial, permuted, parsed>>

----------------------------------------------------------------------------
(* Spatial palette generator *)

Infinity == [num |-> 1, den |-> 0]

RECURSIVE ISqrtFrom(_, _)
ISqrtFrom(n, k) == IF (k + 1) * (k + 1) > n THEN k ELSE ISqrtFrom(n, k + 1)

\* Math.sqrt of a finite q >= 0, rounded down to a multiple of 1/SqrtScale
Sqrt(q) ==
    Rat(ISqrtFrom((q.num * SqrtScale * SqrtScale) \div q.den, 0), SqrtScale)

\* Math.atan2(dy, dx), kept exactly as the primitive integer direction of
\* (dx, dy): two angles are equal iff their directions are; atan2(0, 0) = 0
Atan2(dy, dx) ==
    LET l == (dy.den * dx.den) \div GCD(dy.den, dx.den)
        a == dy.num * (l \div dy.den)
        b == dx.num * (l \div dx.den)
        g == GCD(Abs(a), Abs(b))
    IN  IF g = 0 THEN [dy |-> 0, dx |-> 1]
        ELSE [dy |-> a \div g, dx |-> b \div g]

\* quarter of (-pi, pi] an angle lies in: (-pi,0), {0}, (0,pi), {pi}
ThetaRange(t) ==
    IF t.dy < 0 THEN 0
    ELSE IF t.dy > 0 THEN 2
    ELSE IF t.dx > 0 THEN 1 ELSE 3

\* sign of a.theta - b.theta
ThetaCompare(a, b) ==
    IF ThetaRange(a) # ThetaRange(b)
    THEN (IF ThetaRange(a) < ThetaRange(b) THEN -1 ELSE 1)
    ELSE -Sign(a.dx * b.dy - a.dy * b.dx)

\* Math.pow(r, p) for an integer exponent p >= 0; Math.pow(x, 0) is 1
RECURSIVE Pow(_, _)
Pow(r, p) == IF p = 0 THEN Num(1) ELSE RatMul(r, Pow(r, p - 1))

\* the loop that finds minX, maxX, minY, maxY, starting from +-Infinity
RECURSIVE BoundingBox(_, _, _)
BoundingBox(positions, i, box) ==
    IF i > Len(positions) THEN box
    ELSE LET x == Num(positions[i][1])
             y == Num(positions[i][2])
         IN  BoundingBox(positions, i + 1,
                [minX |-> IF RatLess(x, box.minX) THEN x ELSE box.minX,
                 maxX |-> IF RatLess(box.maxX, x) THEN x ELSE box.maxX,
                 minY |-> IF RatLess(y, box.minY) THEN y ELSE box.minY,
                 maxY |-> IF RatLess(box.maxY, y) THEN y ELSE box.maxY])

EmptyBox == [minX |-> Infinity, maxX |-> RatNeg(Infinity),
             minY |-> Infinity, maxY |-> RatNeg(Infinity)]

\* minX + (maxX - minX) / 2
Center(lo, hi) == RatAdd(lo, RatDiv(RatSub(hi, lo), Num(2)))

\* ([x, y]) => ({ radius, theta, x, y }) about the centre
Polar(position, centerX, centerY) ==
    LET dx == RatSub(Num(position[1]), centerX)
        dy == RatSub(Num(position[2]), centerY)
    IN  [radius |-> Sqrt(RatAdd(RatMul(dx, dx), RatMul(dy, dy))),
         theta |-> Atan2(dy, dx),
         x |-> position[1],
         y |-> position[2]]

RECURSIVE MapPolar(_, _, _)
MapPolar(positions, centerX, centerY) ==
    IF Len(positions) = 0 THEN <<>>
    ELSE Append(MapPolar(SubSeq(positions, 1, Len(positions) - 1), centerX, centerY),
                Polar(positions[Len(positions)], centerX, centerY))

\* categoryPositions.map(([x, y]) => ({ radius, theta, x, y }))
PolarCoords(positions) ==
    LET box == BoundingBox(positions, 1, EmptyBox)
    IN  MapPolar(positions, Center(box.minX, box.maxX), Center(box.minY, box.maxY))

\* insert p behind every element whose theta is not greater (stable)
RECURSIVE InsertByTheta(_, _)
InsertByTheta(sorted, p) ==
    IF sorted = <<>> THEN <<p>>
    ELSE IF ThetaCompare(p.theta, sorted[Len(sorted)].theta) >= 0
         THEN Append(sorted, p)
         ELSE Append(InsertByTheta(SubSeq(sorted, 1, Len(sorted) - 1), p),
                     sorted[Len(sorted)])

\* [...polarCoords].sort((a, b) => a.theta - b.theta); the sort is stable
RECURSIVE SortByTheta(_)
SortByTheta(coords) ==
    IF coords = <<>> THEN <<>>
    ELSE InsertByTheta(SortByTheta(SubSeq(coords, 1, Len(coords) - 1)),
                       coords[Len(coords)])

\* weights.map(w => { cumSum += w; return cumSum })
RECURSIVE CumulativeWeights(_)
CumulativeWeights(weights) ==
    IF weights = <<>> THEN <<>>
    ELSE LET front == CumulativeWeights(SubSeq(weights, 1, Len(weights) - 1))
             before == IF front = <<>> THEN Num(0) ELSE front[Len(front)]
         IN  Append(front, RatAdd(before, weights[Len(weights)]))

\* sorted.findIndex(s => s.theta === coord.theta && s.radius === coord.radius)
\* as a 1-based index, 0 for "not found"
FindIndex(sorted, coord) ==
    LET hits == {k \in 1..Len(sorted) :
                    sorted[k].theta = coord.theta /\ sorted[k].radius = coord.radius}
    IN  IF hits = {} THEN 0 ELSE CHOOSE k \in hits : \A j \in hits : k <= j

\* Math.max(...polarCoords.map(p => p.radius))
RECURSIVE MaxRadius(_, _)
MaxRadius(coords, i) ==
    IF i > Len(coords) THEN RatNeg(Infinity)
    ELSE LET rest == MaxRadius(coords, i + 1)
         IN  IF RatLess(rest, coords[i].radius) THEN coords[i].radius ELSE rest

\* hue = normalizedWeight * 360 + hueShift; hue %= 360; if (hue < 0) hue += 360
Hue(normalizedWeight, hueShift) ==
    LET h == RatRem(RatAdd(RatMul(normalizedWeight, Num(360)), Num(hueShift)), 360)
    IN  IF RatLess(h, Num(0)) THEN RatAdd(h, Num(360)) ELSE h

\* maxRadius > 0 ? coord.radius / maxRadius : 0
NormalizedRadius(radius, maxRadius) ==
    IF RatLess(Num(0), maxRadius) THEN RatDiv(radius, maxRadius) ELSE Num(0)

\* (1 - normalizedRadius) * (80 - minLightness) + minLightness
Lightness(normalizedRadius, minLightness) ==
    RatAdd(RatMul(RatSub(Num(1), normalizedRadius), Num(80 - minLightness)),
           Num(minLightness))

\* normalizedRadius * 80 + 20
Chroma(normalizedRadius) == RatAdd(RatMul(normalizedRadius, Num(80)), Num(20))

\* the hue / chroma / lightness triple handed to d3-color's hcl(); the
\* conversion of the triple to a hex string is d3-color's
Hcl(h, c, l) == [h |-> h, c |-> c, l |-> l]

NoLocals == [sorted |-> <<>>, cumulativeWeights |-> <<>>,
             totalWeight |-> Num(0), points |-> <<>>]

\* sorted.map(p => Math.pow(p.radius, radiusWeightPower))
RECURSIVE Weights(_, _)
Weights(sorted, radiusWeightPower) ==
    IF Len(sorted) = 0 THEN <<>>
    ELSE Append(Weights(SubSeq(sorted, 1, Len(sorted) - 1), radiusWeightPower),
                Pow(sorted[Len(sorted)].radius, radiusWeightPower))

\* sortedIndex >= 0 ? cumulativeWeights[sortedIndex] / totalWeight : 0
NormalizedWeight(sortedIndex, cumulativeWeights, totalWeight) ==
    IF sortedIndex >= 1
    THEN RatDiv(cumulativeWeights[sortedIndex], totalWeight)
    ELSE Num(0)

\* one pass of the colour loop: the locals computed for coord
PointLocals(coord, sorted, cumulativeWeights, totalWeight, maxRadius, options) ==
    LET sortedIndex == FindIndex(sorted, coord)
        normalizedWeight ==
            NormalizedWeight(sortedIndex, cumulativeWeights, totalWeight)
        normalizedRadius == NormalizedRadius(coord.radius, maxRadius)
    IN  [sortedIndex |-> sortedIndex,
         normalizedWeight |-> normalizedWeight,
         normalizedRadius |-> normalizedRadius,
         hue |-> Hue(normalizedWeight, options.hueShift),
         chroma |-> Chroma(normalizedRadius),
         lightness |-> Lightness(normalizedRadius, options.minLightness)]

\* for (const coord of polarCoords) { ... }: the locals of every pass
RECURSIVE ColorLoop(_, _, _, _, _, _)
ColorLoop(coords, sorted, cumulativeWeights, totalWeight, maxRadius, options) ==
    IF Len(coords) = 0 THEN <<>>
    ELSE Append(ColorLoop(SubSeq(coords, 1, Len(coords) - 1), sorted,
                          cumulativeWeights, totalWeight, maxRadius, options),
                PointLocals(coords[Len(coords)], sorted, cumulativeWeights,
                            totalWeight, maxRadius, options))

\* colors.push(hcl(hue, chroma, lightness).formatHex()) of every pass
RECURSIVE PushedColors(_)
PushedColors(points) ==
    IF Len(points) = 0 THEN <<>>
    ELSE Append(PushedColors(SubSeq(points, 1, Len(points) - 1)),
                Hcl(points[Len(points)].hue, points[Len(points)].chroma,
                    points[Len(points)].lightness))

\* the function body behind the degenerate-case return
SpatialBody(positions, options) ==
    LET polarCoords == PolarCoords(positions)
        sorted == SortByTheta(polarCoords)
        cumulativeWeights ==
            CumulativeWeights(Weights(sorted, options.radiusWeightPower))
        totalWeight == IF cumulativeWeights = <<>> THEN Num(0)
                       ELSE cumulativeWeights[Len(cumulativeWeights)]
        points == ColorLoop(polarCoords, sorted, cumulativeWeights, totalWeight,
                            MaxRadius(polarCoords, 1), options)
    IN  [colors |-> PushedColors(points),
         locals |-> [sorted |-> sorted, cumulativeWeights |-> cumulativeWeights,
                     totalWeight |-> totalWeight, points |-> points]]

spatialCategoryColorsPerCategory(categoryCount, positions, options) ==
    IF categoryCount = 0 \/ Len(positions) = 0
    THEN [colors |-> <<>>, locals |-> NoLocals]
    ELSE SpatialBody(SubSeq(positions, 1, Min(categoryCount, Len(positions))),
                     options)

\* spatialCategoryColors(categoryCount, categoryPositions, options): the
\* colours it returns and the locals it computed on the way
spatialCategoryColors(categoryCount, positions, options) ==
    IF categoryCount = 0 \/ Len(positions) = 0
    THEN [colors |-> <<>>, locals |-> NoLocals]
    ELSE SpatialBody(positions, options)

Points == (0..MaxX) \X (0..MaxY)

PositionLists == UNION {[1..n -> Points] : n \in 0..MaxPositions}

CategoryCounts == {0, 2}

\* const { hueShift = 0, minLightness = 20, radiusWeightPower = 1.0 } = options
DefaultOptions == [hueShift |-> 0, minLightness |-> 20, radiusWeightPower |-> 1]

\* options objects callers pass; the first is the defaults of the signature
OptionChoices ==
    { DefaultOptions,
      [hueShift |-> -400, minLightness |-> 0, radiusWeightPower |-> 0],
      [hueShift |-> 90, minLightness |-> 90, radiusWeightPower |-> 2],
      [hueShift |-> 400, minLightness |-> 80, radiusWeightPower |-> 1] }

NoSpatial == [called |-> FALSE, categoryCount |-> 0, positions |-> <<>>,
              options |-> DefaultOptions, colors |-> <<>>, locals |-> NoLocals]

NoPermuted == [called |-> FALSE, perm |-> <<>>, positions |-> <<>>,
               colors |-> <<>>]

\* a call spatialCategoryColors(categoryCount, positions, options) about to
\* be made
PendingSpatial(categoryCount, positions, options) ==
    [called |-> FALSE, categoryCount |-> categoryCount, positions |-> positions,
     options |-> options, colors |-> <<>>, locals |-> NoLocals]

\* the pending call runs to its return
CallSpatialCategoryColors ==
    LET r == spatialCategoryColors(spatial.categoryCount, spatial.positions,
                                   spatial.options)
    IN  /\ ~spatial.called
        /\ spatial' = [spatial EXCEPT !.called = TRUE, !.colors = r.colors,
                                      !.locals = r.locals]
        /\ UNCHANGED <<paletteVars, permuted, parsed>>

Orderings(n) ==
    {p \in [1..n -> 1..n] : \A i, j \in 1..n : p[i] = p[j] => i = j}

\* the list whose position i is position perm[i] of positions
RECURSIVE Reordered(_, _)
Reordered(positions, perm) ==
    IF Len(perm) = 0 THEN <<>>
    ELSE Append(Reordered(positions, SubSeq(perm, 1, Len(perm) - 1)),
                positions[perm[Len(perm)]])

\* the caller repeats the last call with the same positions in the order
\* perm: position i of the new list is position perm[i] of the old one
CallPermuted(perm) ==
    /\ spatial.called
    /\ ~permuted.called
    /\ Len(perm) = Len(spatial.positions)
    /\ permuted' =
          [called |-> TRUE, perm |-> perm,
           positions |-> Reordered(spatial.positions, perm),
           colors |-> spatialCategoryColors(spatial.categoryCount,
                          Reordered(spatial.positions, perm),
                          spatial.options).colors]
    /\ UNCHANGED <<paletteVars, spatial, parsed>>

----------------------------------------------------------------------------
(* Colour parser *)

\* channel values and opacities the d3-color parser yields for the strings
\* callers pass, among them "#ff0000" and "rgba(0,128,255,0.5)"
ChannelSamples == {0, 1, 128, 255}

OpacitySamples == {Num(0), Rat(1, 2), Num(1)}

ChannelDivisor == 255

NormalizeChannel256(c) == Rat(c, 256)

\* r / 255.0
NormalizeChannel(c) == Rat(c, ChannelDivisor)

\* a: opacity
PassOpacity(opacity) == opacity

\* parseColorNormalizedRgb on a string that rgb() parses to r, g, b, opacity
parseColorNormalizedRgb(r, g, b, opacity) ==
    [r |-> NormalizeChannel(r), g |-> NormalizeChannel(g),
     b |-> NormalizeChannel(b), a |-> PassOpacity(opacity)]

NoParsed == [called |-> FALSE, r |-> 0, g |-> 0, b |-> 0, opacity |-> Num(0),
             result |-> [r |-> Num(0), g |-> Num(0), b |-> Num(0), a |-> Num(0)]]

CallParseColorNormalizedRgb(r, g, b, opacity) ==
    /\ parsed' = [called |-> TRUE, r |-> r, g |-> g, b |-> b,
                  opacity |-> opacity,
                  result |-> parseColorNormalizedRgb(r, g, b, opacity)]
    /\ UNCHANGED <<paletteVars, spatial, permuted>>

----------------------------------------------------------------------------
(* Specifications *)

Init ==
    /\ InitPalette
    /\ spatial = NoSpatial
    /\ permuted = NoPermuted
    /\ parsed = NoParsed

\* callers of the fixed palette selector
Next ==
    \/ \E n \in (-MaxNegative)..MaxCount : CallDefaultCategoryColors(n)
    \/ \E i \in 1..(MaxCount + 1) : MutateReturned(i)

Spec == Init /\ [][Next]_vars

\* callers of the spatial palette generator
InitSpatial ==
    /\ InitPalette
    /\ \E c \in CategoryCounts, ps \in PositionLists, o \in OptionChoices :
          spatial = PendingSpatial(c, ps, o)
    /\ permuted = NoPermuted
    /\ parsed = NoParsed

NextSpatial == CallSpatialCategoryColors

SpecSpatial == InitSpatial /\ [][NextSpatial]_vars

\* a caller that repeats a spatial call on reordered positions
NextPermuted ==
    \/ NextSpatial
    \/ \E n \in 0..MaxPositions : \E perm \in Orderings(n) : CallPermuted(perm)

SpecPermuted == InitSpatial /\ [][NextPermuted]_vars

\* callers of the colour parser
NextParse ==
    \E r, g, b \in ChannelSamples : \E o \in OpacitySamples :
        CallParseColorNormalizedRgb(r, g, b, o)

SpecParse == Init /\ [][NextParse]_vars

----------------------------------------------------------------------------
(* Properties of defaultCategoryColors, checked under Spec *)

Called == object # "none"

IsPrefix(colors, table) ==
    /\ Len(colors) <= Len(table)
    /\ \A k \in 1..Len(colors) : colors[k] = table[k]

\* C1: for every integer count n, defaultCategoryColors(n) returns exactly
\* max(n, 1) colours, and a call with n <= 0 returns what a call with 1 did
C1_LengthIsClampedCount ==
    Called =>
        /\ Len(returned) = Max(count, 1)
        /\ (count <= 0 /\ first.count = 1) => returned = first.colors
        /\ (count = 1 /\ first.count <= 0) => returned = first.colors

C1_Witness ==
    Called /\ count < 0 /\ first.count = 1 /\ Len(returned) = 1

\* C2: the result is a prefix of the 10-colour table for n in 1..10, a prefix
\* of the 20-colour table for n in 11..20, and for n > 20 its first 20
\* entries are the 20-colour table entry by entry
C2_PrefixOfTables ==
    Called =>
        /\ count \in 1..10 => IsPrefix(returned, Category10Table)
        /\ count \in 11..20 => IsPrefix(returned, Category20Table)
        /\ count > 20 => /\ Len(returned) >= 20
                         /\ \A k \in 1..20 : returned[k] = Category20Table[k]

C2_Witness ==
    Called /\ count = 10 /\ Len(returned) = 10 /\ first.count > 20

\* C3: for count > 20 and 20 <= i < count, entry i is the HSL colour with hue
\* (i * 360 / count) mod 360, saturation 70 for even i and 85 for odd i, and
\* lightness 45 + (i mod 3) * 10
C3_GeneratedEntries ==
    (Called /\ count > 20) =>
        \A i \in 20..(count - 1) :
            LET e == returned[i + 1]
            IN  /\ e.css = "hsl"
                /\ e.args[1].den > 0
                /\ e.args[1].num * count = ((i * 360) % (360 * count)) * e.args[1].den
                /\ e.args[2] = Num(IF i % 2 = 0 THEN 70 ELSE 85)
                /\ e.args[3] = Num(45 + (i % 3) * 10)

C3_Witness ==
    Called /\ count = 23 /\ Len(returned) = 23 /\ returned[23].css = "hsl"

\* C7 as stated: entry 20 of defaultCategoryColors(25) has hue 288,
\* saturation 70 and lightness 45
C7_Entry20Lightness45 ==
    (Called /\ count = 25) => returned[21].args = <<Num(288), Num(70), Num(45)>>

\* C7 as amended: entry 20 of defaultCategoryColors(25) has hue 288,
\* saturation 70 and lightness 45 + (20 mod 3) * 10 = 65
C7_Entry20Lightness65 ==
    (Called /\ count = 25) =>
        /\ returned[21].css = "hsl"
        /\ returned[21].args = <<Num(288), Num(70), Num(65)>>

C7_Witness ==
    Called /\ count = 25 /\ Len(returned) = 25

\* C8: whatever calls were made and whatever callers wrote into the arrays
\* they were handed, the two tables are unchanged and a call with the count
\* of the first call returns what the first call returned
C8_TablesUntouched ==
    /\ category10 = Category10Table
    /\ category20 = Category20Table
    /\ (Called /\ count = first.count) => returned = first.colors

\* a call made after a caller wrote into an earlier result, with the count of
\* the first call
C8_Witness ==
    /\ Called
    /\ mutations > 0
    /\ held = returned
    /\ count = first.count
    /\ count = 25

----------------------------------------------------------------------------
(* Properties of spatialCategoryColors, checked under SpecSpatial and       *)
(* SpecPermuted                                                             *)

Degenerate == spatial.categoryCount = 0 \/ Len(spatial.positions) = 0

\* C4: the result is empty when categoryCount is 0 or there are no positions,
\* and otherwise has one colour per position whatever categoryCount is
C4_OneColorPerPosition ==
    spatial.called =>
        IF Degenerate THEN spatial.colors = <<>>
        ELSE Len(spatial.colors) = Len(spatial.positions)

C4_Witness ==
    /\ spatial.called
    /\ spatial.categoryCount = 2
    /\ Len(spatial.positions) = 3
    /\ Len(spatial.colors) = 3

\* C5: for every permutation of the positions, the colour returned for a
\* position in the permuted call is the colour the original call returned
\* for that position (hue, chroma and lightness all equal)
C5_PermutationKeepsColors ==
    permuted.called =>
        /\ Len(permuted.colors) = Len(spatial.colors)
        /\ \A i \in 1..Len(permuted.colors) :
              permuted.colors[i] = spatial.colors[permuted.perm[i]]

\* C6: for every non-empty list of positions and every minLightness, the
\* lightness computed for each point is at least minLightness
C6_LightnessAtLeastMin ==
    (spatial.called /\ ~Degenerate) =>
        \A i \in 1..Len(spatial.locals.points) :
            RatLeq(Num(spatial.options.minLightness),
                   spatial.locals.points[i].lightness)

\* C10: for every non-empty list of positions, each point's normalizedWeight
\* is its cumulative weight in theta order over the total weight, is a
\* well-defined value in (0, 1], and increases along the angular order
C10_NormalizedWeightInUnitInterval ==
    (spatial.called /\ ~Degenerate) =>
        LET l == spatial.locals
        IN  /\ \A i \in 1..Len(l.points) :
                  LET w == l.points[i].normalizedWeight
                  IN  /\ l.points[i].sortedIndex >= 1
                      /\ w = RatDiv(l.cumulativeWeights[l.points[i].sortedIndex],
                                    l.totalWeight)
                      /\ IsFinite(w)
                      /\ RatLess(Num(0), w)
                      /\ RatLeq(w, Num(1))
            /\ \A j, k \in 1..Len(l.sorted) :
                  j < k => RatLeq(RatDiv(l.cumulativeWeights[j], l.totalWeight),
                                  RatDiv(l.cumulativeWeights[k], l.totalWeight))

----------------------------------------------------------------------------
(* Properties of parseColorNormalizedRgb, checked under SpecParse *)

UnitInterval(q) == IsFinite(q) /\ RatLeq(Num(0), q) /\ RatLeq(q, Num(1))

IsChannelOver255(q, c) == q.den > 0 /\ q.num * 255 = c * q.den /\ UnitInterval(q)

\* C9: for channels in 0..255 and an opacity in [0, 1], r, g and b are the
\* channels divided by 255, each in [0, 1], and a is the opacity unchanged;
\* channels (255, 0, 0) with opacity 1 give {r: 1, g: 0, b: 0, a: 1}
C9_ChannelsOver255 ==
    parsed.called =>
        /\ IsChannelOver255(parsed.result.r, parsed.r)
        /\ IsChannelOver255(parsed.result.g, parsed.g)
        /\ IsChannelOver255(parsed.result.b, parsed.b)
        /\ parsed.result.a = parsed.opacity
        /\ (parsed.r = 255 /\ parsed.g = 0 /\ parsed.b = 0 /\ parsed.opacity = Num(1))
              => parsed.result = [r |-> Num(1), g |-> Num(0), b |-> Num(0), a |-> Num(1)]

C9_Witness ==
    /\ parsed.called
    /\ parsed.r = 255 /\ parsed.g = 0 /\ parsed.b = 0 /\ parsed.opacity = Num(1)
    /\ parsed.result.r = Num(1)

====
